---- MODULE Spec2Model ----
(***************************************************************************)
(* Model of src/elevenlabs_service.py: the StandupBot relay between the    *)
(* voice vendor (ElevenLabs), the chat system (Slack) and the session      *)
(* store (the standup_responses table behind Supabase/PostgREST).          *)
(*                                                                         *)
(* Every HTTP handler is one action.  The answers of the downstream        *)
(* services are inputs of the action, drawn from the outcomes an HTTP      *)
(* call made with httpx can have: a success, a non-success status, or a    *)
(* transport error (an exception, which no handler catches unless the      *)
(* code says so and which FastAPI turns into a 500 response).              *)
(*                                                                         *)
(* Encodings: a user id is a number in 1..NumUsers and 0 is the empty or   *)
(* absent string; a date is a day number.  The service keeps no record of  *)
(* conversations: the vendor does, and the model names a conversation by   *)
(* the user whose call it was (conversation c is a call of user c), 0      *)
(* being an absent conversation id.                                        *)
(***************************************************************************)
EXTENDS Integers, Sequences, FiniteSets, TLC

\* ------------------------------------------------------------------ bounds
NumUsers == 2

Users == 1..NumUsers
ConvIds == Users
\* The user whose call conversation c was.
Caller(c) == c

\* ------------------------------------------------------- program constants
HTTP_OK == 200
BAD_REQUEST == 400
NOT_FOUND == 404
BAD_GATEWAY == 502
\* FastAPI's answer to an exception no handler catches.
INTERNAL_SERVER_ERROR == 500

VARIABLES
    SUPABASE_URL,   \* TRUE iff the store URL is configured (non-empty)
    today,          \* what date.today() returns; the model covers the requests of one day
    store,          \* the rows of standup_responses, in created_at order
    last            \* the most recent request: input, downstream outcomes, effects, response

vars == <<SUPABASE_URL, today, store, last>>

\* ------------------------------------------------------------ session store

Row(u, d, s) == [slack_user_id |-> u, date |-> d, status |-> s]

Reverse(s) == [i \in 1..Len(s) |-> s[Len(s) + 1 - i]]

\* The index of the row holding key (u, d), or 0.
RowIndex(rows, u, d) ==
    LET hits == {i \in 1..Len(rows) : rows[i].slack_user_id = u /\ rows[i].date = d}
    IN IF hits = {} THEN 0 ELSE CHOOSE i \in hits : \A j \in hits : i <= j

\* POST with Prefer: resolution=merge-duplicates: a row with the same
\* (slack_user_id, date) takes the posted columns and keeps its created_at;
\* otherwise a new row is inserted, the newest of the table.
\* Mutants: a plain insert; resolution=ignore-duplicates.
UpsertNoMerge(rows, u, d, s) == Append(rows, Row(u, d, s))

UpsertIgnoreDuplicates(rows, u, d, s) ==
    IF RowIndex(rows, u, d) = 0 THEN Append(rows, Row(u, d, s)) ELSE rows

Upsert(rows, u, d, s) ==
    LET i == RowIndex(rows, u, d)
    IN IF i = 0 THEN Append(rows, Row(u, d, s))
                ELSE [rows EXCEPT ![i].status = s]

\* The status the upsert replaces, "none" when it inserts.
Replaced(rows, u, d) ==
    LET i == RowIndex(rows, u, d)
    IN IF i = 0 THEN "none" ELSE rows[i].status

\* limit=<n>
Limit(rows, n) == SubSeq(rows, 1, IF Len(rows) < n THEN Len(rows) ELSE n)

\* GET filtered by date=eq.<d>, status=eq.pending, order=created_at.desc,
\* limit=1: the most recently created pending row of day d, if any.
\* Mutants: order=created_at.asc; no status filter.
SelectPendingOldest(rows, d) ==
    LET IsHit(r) == r.date = d /\ r.status = "pending"
        hits == SelectSeq(rows, IsHit)
    IN Limit(hits, 1)

SelectPendingAnyStatus(rows, d) ==
    LET IsHit(r) == r.date = d
        hits == Reverse(SelectSeq(rows, IsHit))
    IN Limit(hits, 1)

SelectPending(rows, d) ==
    LET IsHit(r) == r.date = d /\ r.status = "pending"
        hits == Reverse(SelectSeq(rows, IsHit))
    IN Limit(hits, 1)

\* PATCH filtered by date=eq.<d>, slack_user_id=eq.<u>: every matching row
\* takes status completed.
PatchCompleted(rows, d, u) ==
    [i \in 1..Len(rows) |->
        IF rows[i].date = d /\ rows[i].slack_user_id = u
        THEN [rows[i] EXCEPT !.status = "completed"]
        ELSE rows[i]]

\* Outcomes of a call to the store.  With SUPABASE_URL empty the request URL
\* has no scheme and httpx raises before anything is sent.
StoreOutcomes ==
    IF SUPABASE_URL THEN {"ok", "http_error", "transport_error"}
                    ELSE {"transport_error"}

\* ------------------------------------------------------------------ vendor

\* An answer of the vendor: the call raised, or it returned a status; an
\* answer to get-signed-url may lack the signed_url field.
VendorAnswer(raised, status, signed_url) ==
    [raised |-> raised, status |-> status, signed_url |-> signed_url]

VendorRaised == VendorAnswer(TRUE, 0, FALSE)

\* Answers to GET convai/conversation/get-signed-url.
SignedUrlAnswers ==
    {VendorRaised, VendorAnswer(FALSE, 401, FALSE), VendorAnswer(FALSE, 200, FALSE),
     VendorAnswer(FALSE, 200, TRUE)}

\* Answers to GET convai/conversations/{c}.
ConversationAnswers ==
    {VendorRaised, VendorAnswer(FALSE, 500, FALSE), VendorAnswer(FALSE, 200, FALSE)}

\* The transcript the vendor holds for conversation c: entries are dicts that
\* may lack a key ("<absent>").
Absent == "<absent>"

VendorTranscript(c) ==
    IF c % 2 = 1
    THEN << [role |-> "agent", message |-> "Hi"], [role |-> "user", message |-> "Hello"] >>
    ELSE << [role |-> "agent", message |-> "Blockers?"], [role |-> Absent, message |-> "None"],
            [role |-> "user", message |-> Absent] >>

\* entry.get(key, default)
Get(value, default) == IF value = Absent THEN default ELSE value

\* lines.append(f'{role}: {message}') for each entry, in order; the lines
\* are then joined by newlines.
TranscriptLines(entries) ==
    [i \in 1..Len(entries) |->
        Get(entries[i].role, "unknown") \o ": " \o Get(entries[i].message, "")]

RECURSIVE Join(_, _)
Join(lines, sep) ==
    IF lines = <<>> THEN ""
    ELSE IF Len(lines) = 1 THEN lines[1]
    ELSE lines[1] \o sep \o Join(Tail(lines), sep)

FullTranscript(entries) == Join(TranscriptLines(entries), "\n")

\* ------------------------------------------------------------ the request log

NoRequest ==
    [handler |-> "none", user_id |-> 0, conversation_id |-> 0,
     post |-> "skipped", replaced |-> "none",
     lookup |-> "skipped", resolved |-> 0,
     vendor |-> "skipped", vendor_status |-> 0,
     stored_for |-> 0, transcript |-> "",
     patch |-> "skipped", patch_to |-> 0, dm_to |-> 0, dm_open |-> "skipped", dm_post |-> "skipped",
     status |-> 0, body |-> "none"]

Respond(r, status, body) == [r EXCEPT !.status = status, !.body = body]

\* An exception no handler catches.
Unhandled(r) == Respond(r, INTERNAL_SERVER_ERROR, "internal_server_error")

WithVendor(r, a) ==
    [r EXCEPT !.vendor = IF a.raised THEN "transport_error" ELSE "answered",
              !.vendor_status = a.status]

\* ------------------------------------------------------------ send_slack_dm

\* conversations.open answers with a channel id, answers without one (an
\* unknown user, a missing or refused token), or the call raises.
DmOpenOutcomes == {"ok", "no_channel", "transport_error"}
DmPostOutcomes == {"ok", "http_error", "transport_error"}

\* conversations.open, then chat.postMessage unless no channel id came back.
\* Nothing in it catches an exception of either call.
SlackDmPosts(open) == open = "ok"
SlackDmRaises(open, post) ==
    \/ open = "transport_error"
    \/ SlackDmPosts(open) /\ post = "transport_error"

\* -------------------------------------------------------------- GET /call

\* Mutant: a test for None, which the default '' never is.
MissingUserIdIsNone(user_id) == FALSE

\* if not user_id
MissingUserId(user_id) == user_id = 0

\* Outcomes of the upsert POST; it is not sent when SUPABASE_URL is empty.
PostOutcomes ==
    IF SUPABASE_URL THEN {"ok", "http_error", "transport_error"} ELSE {"skipped"}

\* The answer to the signed-URL request decides the page.
CallPageSigned(r, a) ==
    IF a.raised THEN Unhandled(WithVendor(r, a))
    ELSE IF a.status # HTTP_OK
        THEN Respond(WithVendor(r, a), BAD_GATEWAY, "elevenlabs_api_error")
    ELSE IF ~a.signed_url
        THEN Respond(WithVendor(r, a), BAD_GATEWAY, "no_signed_url")
    ELSE Respond(WithVendor(r, a), HTTP_OK, "call_page")

\* The display name (user_name, users.info, whose exceptions are caught) and
\* the context text only fill the page; they are left out.
CallPage(user_id) ==
    LET r0 == [NoRequest EXCEPT !.handler = "call", !.user_id = user_id]
    IN
    /\ UNCHANGED <<SUPABASE_URL, today>>
    /\ IF MissingUserId(user_id) THEN
           /\ last' = Respond(r0, BAD_REQUEST, "missing_user_id")
           /\ UNCHANGED store
       ELSE \E post \in PostOutcomes :
           LET r1 == [r0 EXCEPT !.post = post,
                                !.replaced = IF post = "ok"
                                             THEN Replaced(store, user_id, today)
                                             ELSE "none"]
           IN
           /\ store' = IF post = "ok" THEN Upsert(store, user_id, today, "called")
                                      ELSE store
           /\ IF post = "transport_error" THEN last' = Unhandled(r1)
              ELSE \E a \in SignedUrlAnswers : last' = CallPageSigned(r1, a)

\* ------------------------------------------------- POST /api/standup/start

StartStandup(user_id) ==
    LET r0 == [NoRequest EXCEPT !.handler = "start", !.user_id = user_id]
    IN
    /\ UNCHANGED <<SUPABASE_URL, today, store>>
    /\ \E a \in SignedUrlAnswers :
          last' = IF a.raised THEN Unhandled(WithVendor(r0, a))
                  ELSE IF a.status # HTTP_OK
                      THEN Respond(WithVendor(r0, a), a.status, "elevenlabs_api_error")
                  ELSE IF ~a.signed_url
                      THEN Respond(WithVendor(r0, a), BAD_GATEWAY, "no_signed_url")
                  ELSE Respond(WithVendor(r0, a), HTTP_OK, "signed_url")

\* ------------------------------------------- POST /api/webhooks/elevenlabs

\* A webhook body: conversation_id and user_id at the top level, and
\* optionally a data envelope with its own conversation_id.
Payload(has_data, data_conversation_id, conversation_id, user_id) ==
    [has_data |-> has_data, data_conversation_id |-> data_conversation_id,
     conversation_id |-> conversation_id, user_id |-> user_id]

\* The bodies tried: no conversation id anywhere, one at the top level, one
\* in the envelope, an envelope without one over a top level with one.  A
\* body that carries a user id carries the user id of the call it reports.
\* The last two shapes are tried for the first conversation only.
Payloads ==
    {Payload(FALSE, 0, 0, 0), Payload(TRUE, 0, 0, 0)}
    \cup {Payload(TRUE, c, 0, 0) : c \in ConvIds}
    \cup {Payload(TRUE, c, 0, Caller(c)) : c \in ConvIds}
    \cup {Payload(FALSE, 0, 1, 0), Payload(TRUE, 0, 1, 0)}

\* data = payload.get('data', payload)
\* conversation_id = data.get('conversation_id') or payload.get('conversation_id')
ExtractConversationId(payload) ==
    LET in_data == IF payload.has_data THEN payload.data_conversation_id
                                       ELSE payload.conversation_id
    IN IF in_data # 0 THEN in_data ELSE payload.conversation_id

\* user_id = rows[0]['slack_user_id']: the payload's user_id is not read.
ResolveUser(payload, rows) == rows[1].slack_user_id

\* Mutant: only a missing conversation counts as a failure.
FetchFailedOnlyNotFound(a) == a.status = NOT_FOUND

\* if response.status_code != 200
FetchFailed(a) == a.status # HTTP_OK

\* send_slack_dm, then the acknowledgement.
WebhookNotify(r, user) ==
    \E open \in DmOpenOutcomes :
    \E post \in IF SlackDmPosts(open) THEN DmPostOutcomes ELSE {"skipped"} :
        LET r1 == [r EXCEPT !.dm_to = user, !.dm_open = open, !.dm_post = post]
        IN last' = IF SlackDmRaises(open, post) THEN Unhandled(r1)
                   ELSE Respond(r1, HTTP_OK, "ok")

\* The PATCH's response is not looked at; only an exception stops the handler.
PatchAborts(patch) == patch = "transport_error"

\* store_transcript, the completion mark, the notification.
WebhookComplete(r, user, c) ==
    \E patch \in StoreOutcomes :
        LET r1 == [r EXCEPT !.stored_for = user,
                            !.transcript = FullTranscript(VendorTranscript(c)),
                            !.patch = patch, !.patch_to = user]
        IN
        /\ store' = IF patch = "ok" THEN PatchCompleted(store, today, user) ELSE store
        /\ IF PatchAborts(patch) THEN last' = Unhandled(r1)
           ELSE WebhookNotify(r1, user)

WebhookFetch(r, user, c) ==
    \E a \in ConversationAnswers :
        IF a.raised THEN
            /\ last' = Unhandled(WithVendor(r, a))
            /\ UNCHANGED store
        ELSE IF FetchFailed(a) THEN
            /\ last' = Respond(WithVendor(r, a), a.status, "failed_to_fetch_conversation")
            /\ UNCHANGED store
        ELSE WebhookComplete(WithVendor(r, a), user, c)

Webhook(payload) ==
    LET c == ExtractConversationId(payload)
        r0 == [NoRequest EXCEPT !.handler = "webhook", !.user_id = payload.user_id,
                                !.conversation_id = c]
    IN
    /\ UNCHANGED <<SUPABASE_URL, today>>
    /\ IF c = 0 THEN
           /\ last' = Respond(r0, BAD_REQUEST, "missing_conversation_id")
           /\ UNCHANGED store
       ELSE \E lookup \in StoreOutcomes :
           LET r1 == [r0 EXCEPT !.lookup = lookup]
               rows == SelectPending(store, today)
           IN
           IF lookup # "ok" THEN
               \* an error body has no row 0, or is no JSON at all
               /\ last' = Unhandled(r1)
               /\ UNCHANGED store
           ELSE IF rows = <<>> THEN
               /\ last' = Respond(r1, NOT_FOUND, "no_matching_session")
               /\ UNCHANGED store
           ELSE WebhookFetch([r1 EXCEPT !.resolved = ResolveUser(payload, rows)],
                             ResolveUser(payload, rows), c)

\* ------------------------------------------------------------- environment

\* Injective sequences of users, of every length.
Orderings ==
    {s \in UNION {[1..n -> Users] : n \in 0..NumUsers} :
        \A i, j \in 1..Len(s) : s[i] = s[j] => i = j}

\* The table is shared and outlives the service: at the start of the day it
\* holds the pending rows its other writers created for today, the rows the
\* webhook's lookup is written for, after what earlier days left behind
\* (here nothing, or one row of the first user that is still pending).
LeftBehind(d) == {<<>>, <<Row(1, d, "pending")>>}

InitialStores(d) ==
    {old \o [i \in 1..Len(s) |-> Row(s[i], d, "pending")] :
        old \in LeftBehind(d - 1), s \in Orderings}

Init ==
    /\ SUPABASE_URL \in BOOLEAN
    /\ today = 1
    /\ store \in InitialStores(today)
    /\ last = NoRequest

Next ==
    \/ \E u \in {0} \cup Users : CallPage(u)
    \/ \E u \in Users : StartStandup(u)
    \/ \E p \in Payloads : Webhook(p)

Spec == Init /\ [][Next]_vars

\* ------------------------------------------------------------------ claims

\* Today's rows of user u, and today's pending rows, oldest first.
RowsOf(rows, u, d) ==
    LET IsHit(r) == r.slack_user_id = u /\ r.date = d IN SelectSeq(rows, IsHit)

PendingOn(rows, d) ==
    LET IsHit(r) == r.date = d /\ r.status = "pending" IN SelectSeq(rows, IsHit)

RowsOn(rows, d) ==
    LET IsHit(r) == r.date = d IN SelectSeq(rows, IsHit)

StatusOf(rows, u, d) ==
    IF RowsOf(rows, u, d) = <<>> THEN "none" ELSE RowsOf(rows, u, d)[1].status

\* The request touched nothing downstream of the store lookup.
NothingAfterLookup(r) ==
    /\ r.vendor = "skipped" /\ r.stored_for = 0 /\ r.patch = "skipped" /\ r.patch_to = 0
    /\ r.dm_to = 0 /\ r.dm_open = "skipped" /\ r.dm_post = "skipped"

\* Every downstream call the handler made was answered with success.
AllAnswered(r) ==
    /\ r.post \in {"skipped", "ok"}
    /\ r.lookup \in {"skipped", "ok"}
    /\ r.vendor = "skipped" \/ (r.vendor = "answered" /\ r.vendor_status = HTTP_OK)
    /\ r.patch \in {"skipped", "ok"}
    /\ r.dm_open \in {"skipped", "ok"} /\ r.dm_post \in {"skipped", "ok"}

\* Every step sets last to the request it serves, so a step into a state
\* whose last names a handler is a step of that handler, and last' holds that
\* request's inputs (user_id, conversation_id), calls and response.
WebhookStep == last'.handler = "webhook" /\ last'.conversation_id # 0

CallPageStep(u) == last'.handler = "call" /\ last'.user_id = u

\* C1: the call page has just been served and its upsert created the only
\* session of today (store configured, upsert accepted); a webhook carrying
\* a conversation id is processed next and every downstream call it makes
\* succeeds: then that session's status is completed.
C1_CallPageSessionCompleted ==
    [][( /\ last.handler = "call" /\ last.status = HTTP_OK
         /\ last.post = "ok" /\ last.replaced = "none"
         /\ RowsOn(store, today) = <<Row(last.user_id, today, "called")>>
         /\ WebhookStep
         /\ AllAnswered(last') )
       => StatusOf(store', last.user_id, today) = "completed"]_vars

\* C2: a webhook with a conversation id and no user id, whose lookup the
\* store answers: with exactly one pending session today, the handler
\* resolves to that session's user, and the transcript store, the completion
\* mark and the notification, as far as the request gets, are for that user;
\* with no pending session today it answers 404 and does nothing else.
C2_ResolvesSolePending ==
    [][( /\ WebhookStep
         /\ last'.user_id = 0
         /\ last'.lookup = "ok" )
        => LET pending == PendingOn(store, today) IN
           /\ Len(pending) = 1 =>
                LET u == pending[1].slack_user_id IN
                /\ last'.resolved = u
                /\ last'.stored_for \in {0, u}
                /\ last'.patch_to \in {0, u}
                /\ last'.dm_to \in {0, u}
                /\ AllAnswered(last') =>
                     /\ last'.stored_for = u /\ last'.patch_to = u /\ last'.dm_to = u
                     /\ StatusOf(store', u, today) = "completed"
                     /\ last'.status = HTTP_OK
           /\ Len(pending) = 0 =>
                /\ last'.status = NOT_FOUND
                /\ last'.resolved = 0
                /\ NothingAfterLookup(last')
                /\ store' = store]_vars

C2_Witness ==
    /\ last.handler = "webhook" /\ last.user_id = 0 /\ last.conversation_id # 0
    /\ last.status = HTTP_OK /\ last.patch = "ok"
    /\ PendingOn(store, today) = <<>>
    /\ StatusOf(store, last.resolved, today) = "completed"
    /\ last.dm_to = last.resolved /\ last.stored_for = last.resolved

\* C3: when the vendor answers the conversation fetch with a non-success
\* status, the webhook answers with that status, and the request stores no
\* transcript, marks no session completed and sends no notification.
C3_VendorFailureAborts ==
    [][( /\ WebhookStep
         /\ last'.vendor = "answered"
         /\ last'.vendor_status # HTTP_OK )
        => /\ last'.status = last'.vendor_status
           /\ last'.body = "failed_to_fetch_conversation"
           /\ last'.stored_for = 0
           /\ last'.patch = "skipped" /\ last'.patch_to = 0
           /\ store' = store
           /\ last'.dm_to = 0 /\ last'.dm_open = "skipped" /\ last'.dm_post = "skipped"]_vars

C3_Witness ==
    /\ last.handler = "webhook" /\ last.vendor = "answered"
    /\ last.vendor_status = 500 /\ last.status = 500
    /\ last.resolved # 0
    /\ StatusOf(store, last.resolved, today) = "pending"

\* C4 as stated: after a call-page hit of a non-empty user id that serves
\* the page, no downstream call having failed, exactly one row exists for
\* (user, today), its status is pending or called, and a hit on an existing
\* row adds none.
C4_Original ==
    [][\A u \in Users :
        (CallPageStep(u) /\ AllAnswered(last') /\ last'.status = HTTP_OK)
        => /\ Len(RowsOf(store', u, today)) = 1
           /\ StatusOf(store', u, today) \in {"pending", "called"}
           /\ RowsOf(store, u, today) # <<>> => Len(store') = Len(store)]_vars

\* C4 as amended: the same, for a hit whose upsert the configured store
\* accepts; and a hit that sends no upsert leaves the table as it was.
C4_UpsertIdempotent ==
    [][\A u \in Users :
        CallPageStep(u)
        => /\ (SUPABASE_URL /\ last'.post = "ok") =>
                /\ Len(RowsOf(store', u, today)) = 1
                /\ StatusOf(store', u, today) = "called"
                /\ RowsOf(store, u, today) # <<>> => Len(store') = Len(store)
                /\ RowsOf(store, u, today) = <<>> => Len(store') = Len(store) + 1
           /\ ~SUPABASE_URL => (last'.post = "skipped" /\ store' = store)]_vars

C4_Witness ==
    /\ last.handler = "call" /\ last.post = "ok" /\ last.replaced = "called"
    /\ Len(RowsOf(store, last.user_id, today)) = 1
    /\ StatusOf(store, last.user_id, today) = "called"

\* C5: a webhook that carries a conversation id and a user id, and whose
\* downstream calls all succeed, stores the transcript for, marks the
\* session completed for and notifies the carried user id.
C5_TrustsCarriedUserId ==
    ( /\ last.handler = "webhook"
      /\ last.conversation_id # 0 /\ last.user_id # 0
      /\ AllAnswered(last) )
    => /\ last.status = HTTP_OK
       /\ last.stored_for = last.user_id
       /\ last.patch_to = last.user_id
       /\ last.dm_to = last.user_id

\* C6: once the webhook has stored the transcript and issued the completion
\* mark, it answers {status: ok, conversation_id} whatever the notification
\* does.
C6_AckWhateverNotification ==
    ( /\ last.handler = "webhook"
      /\ last.stored_for # 0
      /\ last.patch \in {"ok", "http_error"} )
    => (last.status = HTTP_OK /\ last.body = "ok")

\* C7: a call-page request without a user id answers 400 and touches neither
\* the store nor the vendor nor the chat system.
C7_MissingUserIdTouchesNothing ==
    [][CallPageStep(0)
        => /\ last'.status = BAD_REQUEST
           /\ last'.body = "missing_user_id"
           /\ store' = store
           /\ last'.post = "skipped"
           /\ last'.lookup = "skipped"
           /\ NothingAfterLookup(last')]_vars

C7_Witness ==
    /\ last.handler = "call" /\ last.user_id = 0
    /\ last.status = BAD_REQUEST /\ last.post = "skipped"

\* C8: a webhook in which the store lookup, the vendor fetch or the
\* completion mark fails answers with an error: it neither answers ok nor
\* sends the notification.
C8_EveryFailureAborts ==
    ( /\ last.handler = "webhook"
      /\ \/ last.lookup \in {"http_error", "transport_error"}
         \/ last.vendor = "transport_error"
         \/ (last.vendor = "answered" /\ last.vendor_status # HTTP_OK)
         \/ last.patch \in {"http_error", "transport_error"} )
    => /\ last.status # HTTP_OK
       /\ last.body # "ok"
       /\ last.dm_to = 0

\* C9: when the caller of the ended conversation has a pending session
\* today and a more recently created session of today is pending too, a
\* webhook without a user id is attributed to the most recently created
\* pending session: the transcript is stored under, and the completion mark
\* and the notification go to, that other user, and the caller's session
\* stays pending.
C9_Misattributes ==
    [][LET c == last'.conversation_id
           pending == PendingOn(store, today)
        IN
        ( /\ WebhookStep
          /\ last'.user_id = 0
          /\ Len(pending) >= 2
          /\ \E i \in 1..(Len(pending) - 1) : pending[i].slack_user_id = Caller(c)
          /\ last'.status = HTTP_OK )
        => LET other == pending[Len(pending)].slack_user_id IN
           /\ other # Caller(c)
           /\ last'.stored_for = other
           /\ last'.transcript = FullTranscript(VendorTranscript(c))
           /\ last'.patch_to = other
           /\ last'.dm_to = other
           /\ StatusOf(store', Caller(c), today) = "pending"
           /\ last'.patch = "ok" => StatusOf(store', other, today) = "completed"]_vars

C9_Witness ==
    /\ last.handler = "webhook" /\ last.user_id = 0 /\ last.conversation_id # 0
    /\ last.status = HTTP_OK /\ last.patch = "ok" /\ last.dm_post = "ok"
    /\ last.resolved # Caller(last.conversation_id)
    /\ last.stored_for = last.resolved
    /\ StatusOf(store, Caller(last.conversation_id), today) = "pending"
    /\ StatusOf(store, last.resolved, today) = "completed"

\* C10: a call-page hit whose upsert the store accepts, for a user whose
\* session of today is completed, sets that row's status to called.
C10_CompletedNotAbsorbing ==
    [][\A u \in Users :
        ( /\ CallPageStep(u)
          /\ last'.post = "ok"
          /\ StatusOf(store, u, today) = "completed" )
        => /\ StatusOf(store', u, today) = "called"
           /\ Len(store') = Len(store)
           /\ last'.replaced = "completed"]_vars

C10_Witness ==
    /\ last.handler = "call" /\ last.post = "ok" /\ last.replaced = "completed"
    /\ StatusOf(store, last.user_id, today) = "called"
====
